---- MODULE Spec2Model ----
(***************************************************************************)
(* Model of the philipshue bridge client (src/src/bridge.rs,              *)
(* src/src/network.rs): the Bridge endpoint (new / get_ip /               *)
(* get_username), the response reconciler Bridge::send, the result        *)
(* extractor extract, and the facade methods built on them.               *)
(*                                                                         *)
(* Conventions.  A Rust String that is taken apart character by character *)
(* (the bridge URL) is a sequence of one-character strings.  JSON texts   *)
(* are represented by their parse tree, a tagged tuple:                   *)
(*   <<"bad">>            a text that is not JSON at all                  *)
(*   <<"num", n>>  <<"str", s>>  <<"bool", b>>                            *)
(*   <<"arr", <<v1, ..., vn>> >>                                          *)
(*   <<"obj", << <<k1, v1>>, ..., <<kn, vn>> >> >>                        *)
(* Decoded Rust values are tagged tuples as well:                         *)
(*   <<"usize", n>>  <<"String", s>>  <<"Id", v>>  <<"Vec", <<...>> >>    *)
(*   <<"Map", << <<k, v>>, ... >> >>  <<"Success", v>>  <<"Error", d>>    *)
(*   <<"Detail", code, address, description>>  <<"Struct", name, s>>      *)
(* and a Result is <<"Ok", v>> or <<"Err", e>>.                           *)
(***************************************************************************)
EXTENDS Integers, Sequences, FiniteSets, TLC

VARIABLES url, args, got, call, responses, extracted, calls, wire, peak

vars == <<url, args, got, call, responses, extracted, calls, wire, peak>>

\* the state of the calls that are in flight together
conc == <<calls, wire, peak>>

(***************************************************************************)
(* Bounds                                                                  *)
(***************************************************************************)
\* longest address / credential string given to Bridge::new
MaxLen == 2
\* longest JSON array in a response body
MaxEnv == 2
\* longest outcome sequence handed to extract
MaxOutcomes == 3
\* facade calls issued on one Bridge and in flight together
NumCalls == 2

(***************************************************************************)
(* Strings as character sequences                                          *)
(***************************************************************************)
Chars == {"a", "/"}

RECURSIVE StringsUpTo(_)
StringsUpTo(n) ==
    IF n = 0 THEN {<<>>}
    ELSE LET shorter == StringsUpTo(n - 1)
         IN  shorter \cup {Append(s, c) : s \in shorter, c \in Chars}

Strings == StringsUpTo(MaxLen)

None == <<"None">>
Some(v) == <<"Some", v>>

\* str::split('/'): the pieces between the separators, empty pieces kept
RECURSIVE split(_)
split(s) ==
    IF \A i \in 1..Len(s) : s[i] # "/" THEN <<s>>
    ELSE LET i == CHOOSE k \in 1..Len(s) :
                      s[k] = "/" /\ \A j \in 1..(k - 1) : s[j] # "/"
         IN  <<SubSeq(s, 1, i - 1)>> \o split(SubSeq(s, i + 1, Len(s)))

\* Iterator::nth (0-based)
nth(seq, n) == IF n + 1 <= Len(seq) THEN Some(seq[n + 1]) ELSE None

\* Option::unwrap: a None aborts the thread
unwrap(o) == IF o = None THEN <<"panic">> ELSE <<"str", o[2]>>

\* format!("http://{}/api/{}/", ip, username)
BridgeNew(ip, username) ==
    <<"h", "t", "t", "p", ":", "/", "/">> \o ip
        \o <<"/", "a", "p", "i", "/">> \o username \o <<"/">>

get_ip(u) == unwrap(nth(split(u), 2))

get_username(u) == unwrap(nth(split(u), 4))

\* whether the character sequence s holds "://"
HasSchemeSep(s) ==
    \E i \in 1..(Len(s) - 2) : s[i] = ":" /\ s[i + 1] = "/" /\ s[i + 2] = "/"

\* hyper::Uri::from_str on the text s: the empty text is refused, a text
\* starting with '/' is in origin form, a text holding "://" is in absolute
\* form and is refused when nothing stands between "://" and the next '/',
\* any other text holding a '/' is refused, the rest is an authority.
uri_from_str(s) ==
    IF Len(s) = 0 THEN <<"Err", <<"UriError", "Empty">> >>
    ELSE IF s[1] = "/" THEN <<"Ok", s>>
    ELSE IF HasSchemeSep(s) THEN
        LET i == CHOOSE k \in 1..(Len(s) - 2) :
                     /\ s[k] = ":" /\ s[k + 1] = "/" /\ s[k + 2] = "/"
                     /\ \A j \in 1..(k - 1) :
                            ~(s[j] = ":" /\ s[j + 1] = "/" /\ s[j + 2] = "/")
        IN  IF i + 3 > Len(s) \/ s[i + 3] = "/"
            THEN <<"Err", <<"UriError", "MissingAuthority">> >>
            ELSE <<"Ok", s>>
    ELSE IF \E i \in 1..Len(s) : s[i] = "/"
         THEN <<"Err", <<"UriError", "Malformed">> >>
         ELSE <<"Ok", s>>

\* format!("http://{}/api", ip) of register_user
RegisterUrl(ip) ==
    <<"h", "t", "t", "p", ":", "/", "/">> \o ip \o <<"/", "a", "p", "i">>

(***************************************************************************)
(* JSON texts a bridge may answer with                                     *)
(***************************************************************************)
Bad == <<"bad">>
Num(n) == <<"num", n>>
Str(s) == <<"str", s>>
Arr(a) == <<"arr", a>>
Obj(o) == <<"obj", o>>

\* {"id": 7}
JId == Obj(<< <<"id", Num(7)>> >>)
\* {"id": "s"}
JIdStr == Obj(<< <<"id", Str("s")>> >>)
\* {"name": "s"}: a domain object (a light, a group, a scene, ...)
JName == Obj(<< <<"name", Str("s")>> >>)
\* {"1": {"name": "s"}}: a collection of domain objects keyed by id
JAll == Obj(<< <<"1", JName>> >>)
\* {"type": 1, "address": "/lights/9", "description": "not available"}
JDetail1 ==
    Obj(<< <<"type", Num(1)>>, <<"address", Str("/lights/9")>>,
           <<"description", Str("not available")>> >>)
\* {"type": 3, "address": "/groups/2", "description": "not found"}
JDetail2 ==
    Obj(<< <<"type", Num(3)>>, <<"address", Str("/groups/2")>>,
           <<"description", Str("not found")>> >>)

JPayloads == {Num(7), Str("s"), JId, JIdStr, JName, JAll, JDetail1, JDetail2}

JSuccess(v) == Obj(<< <<"success", v>> >>)
JError(v) == Obj(<< <<"error", v>> >>)

\* what may stand alone or as an element of an array
JElements ==
    JPayloads \cup {JSuccess(v) : v \in JPayloads}
              \cup {JError(v) : v \in {JDetail1, JDetail2, Num(7)}}

RECURSIVE SeqsUpTo(_, _)
SeqsUpTo(S, n) ==
    IF n = 0 THEN {<<>>}
    ELSE LET shorter == SeqsUpTo(S, n - 1)
         IN  shorter \cup {Append(s, x) : s \in shorter, x \in S}

JArrays == {Arr(a) : a \in SeqsUpTo(JElements, MaxEnv)}

\* [{"success": [{"success": {"name": "s"}}]}]: an envelope inside an envelope
JNested == Arr(<< JSuccess(Arr(<< JSuccess(JName) >>)) >>)

Bodies == {Bad} \cup JElements \cup JArrays \cup {JNested}

(***************************************************************************)
(* Target types of a decode                                                *)
(***************************************************************************)
TString == <<"String">>
TUsize == <<"usize">>
TJsonMap == <<"JsonMap">>
TStruct(name) == <<"Struct", name>>
TId(t) == <<"Id", t>>
TVec(t) == <<"Vec", t>>
TBTreeMap(k, t) == <<"BTreeMap", k, t>>
THueResponse(t) == <<"HueResponse", t>>
TUser == <<"User">>

Ok(v) == <<"Ok", v>>
Err(e) == <<"Err", e>>
IsOk(r) == r[1] = "Ok"
IsErr(r) == r[1] = "Err"

\* the value of field k of a JSON object
Field(j, k) ==
    IF \E i \in 1..Len(j[2]) : j[2][i][1] = k
    THEN Some(j[2][CHOOSE i \in 1..Len(j[2]) : j[2][i][1] = k][2])
    ELSE None

\* a map key read as the key type of a BTreeMap
ParseKey(k, key) ==
    IF k = TString THEN Ok(<<"StringKey", key>>)
    ELSE IF key \in {"0", "1", "2", "3", "4", "5", "6", "7", "8", "9"}
         THEN Ok(<<"usizeKey", key>>)
         ELSE Err(<<>>)

\* hue::Error, the body of an {"error": ...} element
DecodeDetail(j) ==
    IF j[1] # "obj" THEN Err(<<>>)
    ELSE LET c == Field(j, "type")
             a == Field(j, "address")
             d == Field(j, "description")
         IN  IF /\ c # None /\ a # None /\ d # None
                /\ c[2][1] = "num" /\ a[2][1] = "str" /\ d[2][1] = "str"
             THEN Ok(<<"Detail", c[2][2], a[2][2], d[2][2]>>)
             ELSE Err(<<>>)

\* an opaque domain object (Light, Group, Scene, Configuration, FullState)
DecodeStruct(name, j) ==
    IF j[1] # "obj" THEN Err(<<>>)
    ELSE LET n == Field(j, "name")
         IN  IF n # None /\ n[2][1] = "str"
             THEN Ok(<<"Struct", name, n[2][2]>>)
             ELSE Err(<<>>)

\* json::User { username: String }
DecodeUser(j) ==
    IF j[1] # "obj" THEN Err(<<>>)
    ELSE LET n == Field(j, "username")
         IN  IF n # None /\ n[2][1] = "str"
             THEN Ok(<<"User", n[2][2]>>)
             ELSE Err(<<>>)

\* serde's Deserialize for type t, applied to the JSON value j
RECURSIVE Decode(_, _)
Decode(t, j) ==
    IF j = Bad THEN Err(<<>>)
    ELSE IF t = TString THEN
        IF j[1] = "str" THEN Ok(<<"String", j[2]>>) ELSE Err(<<>>)
    ELSE IF t = TUsize THEN
        IF j[1] = "num" /\ j[2] >= 0 THEN Ok(<<"usize", j[2]>>) ELSE Err(<<>>)
    ELSE IF t = TJsonMap THEN
        IF j[1] = "obj" THEN Ok(<<"Map", j[2]>>) ELSE Err(<<>>)
    ELSE IF t = TUser THEN DecodeUser(j)
    ELSE IF t[1] = "Struct" THEN DecodeStruct(t[2], j)
    ELSE IF t[1] = "Id" THEN
        \* a derived struct reads a map (unknown fields skipped) or a sequence
        \* holding exactly its fields
        IF j[1] = "obj" THEN
            LET f == Field(j, "id")
                r == Decode(t[2], f[2])
            IN  IF f # None /\ IsOk(r) THEN Ok(<<"Id", r[2]>>) ELSE Err(<<>>)
        ELSE IF j[1] = "arr" /\ Len(j[2]) = 1 THEN
            LET r == Decode(t[2], j[2][1])
            IN  IF IsOk(r) THEN Ok(<<"Id", r[2]>>) ELSE Err(<<>>)
        ELSE Err(<<>>)
    ELSE IF t[1] = "Vec" THEN
        IF j[1] = "arr" THEN
            LET rs == [i \in 1..Len(j[2]) |-> Decode(t[2], j[2][i])]
            IN  IF \A i \in 1..Len(j[2]) : IsOk(rs[i])
                THEN Ok(<<"Vec", [i \in 1..Len(j[2]) |-> rs[i][2]]>>)
                ELSE Err(<<>>)
        ELSE Err(<<>>)
    ELSE IF t[1] = "BTreeMap" THEN
        IF j[1] = "obj" THEN
            LET ks == [i \in 1..Len(j[2]) |-> ParseKey(t[2], j[2][i][1])]
                vs == [i \in 1..Len(j[2]) |-> Decode(t[3], j[2][i][2])]
            IN  IF \A i \in 1..Len(j[2]) : IsOk(ks[i]) /\ IsOk(vs[i])
                THEN Ok(<<"Map", [i \in 1..Len(j[2]) |-> <<ks[i][2], vs[i][2]>>]>>)
                ELSE Err(<<>>)
        ELSE Err(<<>>)
    ELSE IF t[1] = "HueResponse" THEN
        \* an externally tagged enum: an object with exactly one key, the variant
        IF j[1] = "obj" /\ Len(j[2]) = 1 THEN
            IF j[2][1][1] = "success" THEN
                LET r == Decode(t[2], j[2][1][2])
                IN  IF IsOk(r) THEN Ok(<<"Success", r[2]>>) ELSE Err(<<>>)
            ELSE IF j[2][1][1] = "error" THEN
                LET r == DecodeDetail(j[2][1][2])
                IN  IF IsOk(r) THEN Ok(<<"Error", r[2]>>) ELSE Err(<<>>)
            ELSE Err(<<>>)
        ELSE Err(<<>>)
    ELSE Err(<<>>)

\* the serde_json::Error of a failed decode tells what was expected
de_result(t, r) == IF IsOk(r) THEN r ELSE Err(<<"serde_json", "de", t>>)

\* serde_json::from_str::<t>(&body): the value, or a serde_json::Error
from_str(t, body) == de_result(t, Decode(t, body))

(***************************************************************************)
(* HueError and the conversions into it                                    *)
(***************************************************************************)
\* From<serde_json::Error>
FromJsonError(e) == IF e[2] = "ser" THEN <<"Encoding", e>> ELSE <<"Decode", e>>
\* From<hyper::Error>
FromHyperError(e) == <<"Transport", e>>
\* From<str::Utf8Error>
FromUtf8Error(e) == <<"Encoding", e>>
\* From<&str>: "Malformed response"
FromMsg(m) == <<"Empty", m>>
\* From<hue::Error>
FromBridgeError(d) == <<"Bridge", d>>

\* Result::map_err(From::from) on a serde_json result
map_err_json(r) == IF IsOk(r) THEN r ELSE Err(FromJsonError(r[2]))

\* HueResponse::into_result
into_result(r) ==
    IF r[1] = "Success" THEN Ok(r[2]) ELSE Err(FromBridgeError(r[2]))

(***************************************************************************)
(* extract and the closure of Bridge::send                                 *)
(***************************************************************************)
\* the loop of extract: res_v.push(val.into_result()?) for each val in order
RECURSIVE extract_loop(_, _, _)
extract_loop(rs, i, res_v) ==
    IF i > Len(rs) THEN Ok(<<"Vec", res_v>>)
    ELSE LET r == into_result(rs[i])
         IN  IF IsErr(r) THEN r
             ELSE extract_loop(rs, i + 1, Append(res_v, r[2]))

\* extract, were an empty sequence reported as a malformed response
extract_nonempty(rs) ==
    IF Len(rs) = 0 THEN Err(FromMsg("Malformed response"))
    ELSE extract_loop(rs, 1, <<>>)

\* extract, were the last failure returned instead of the first
extract_last_error(rs) ==
    IF \E i \in 1..Len(rs) : rs[i][1] = "Error"
    THEN LET i == CHOOSE k \in 1..Len(rs) :
                      /\ rs[k][1] = "Error"
                      /\ \A j \in (k + 1)..Len(rs) : rs[j][1] # "Error"
         IN  into_result(rs[i])
    ELSE extract_loop(rs, 1, <<>>)

\* extract, were the payloads accumulated in reverse order
extract_reversed(rs) ==
    LET r == extract_loop(rs, 1, <<>>)
    IN  IF IsOk(r)
        THEN Ok(<<"Vec", [i \in 1..Len(r[2][2]) |-> r[2][2][Len(r[2][2]) + 1 - i]]>>)
        ELSE r

\* extract(responses: Vec<HueResponse<T>>) -> Result<Vec<T>>
extract(rs) == extract_loop(rs, 1, <<>>)

\* send, were the outcome envelope tried before the direct shape
send_body_envelope_first(T, body) ==
    LET r == map_err_json(from_str(T, body))
        e == map_err_json(from_str(TVec(THueResponse(T)), body))
    IN  IF IsOk(e)
        THEN [result |-> IF Len(e[2][2]) = 0
                         THEN Err(FromMsg("Malformed response"))
                         ELSE into_result(e[2][2][1]),
              decodes |-> <<TVec(THueResponse(T))>>]
        ELSE [result |-> r, decodes |-> <<TVec(THueResponse(T)), T>>]

\* send, were the last element of the envelope taken instead of the first
send_body_last(T, body) ==
    LET r == map_err_json(from_str(T, body))
        e == map_err_json(from_str(TVec(THueResponse(T)), body))
    IN  IF IsOk(r) THEN [result |-> r, decodes |-> <<T>>]
        ELSE [result |->
                 IF IsOk(e)
                 THEN IF Len(e[2][2]) = 0
                      THEN Err(FromMsg("Malformed response"))
                      ELSE into_result(e[2][2][Len(e[2][2])])
                 ELSE r,
              decodes |-> <<T, TVec(THueResponse(T))>>]

\* send, were the error of the second decode returned when both fail
send_body_second_error(T, body) ==
    LET r == map_err_json(from_str(T, body))
        e == map_err_json(from_str(TVec(THueResponse(T)), body))
    IN  IF IsOk(r) THEN [result |-> r, decodes |-> <<T>>]
        ELSE [result |->
                 IF IsOk(e)
                 THEN IF Len(e[2][2]) = 0
                      THEN Err(FromMsg("Malformed response"))
                      ELSE into_result(e[2][2][1])
                 ELSE e,
              decodes |-> <<T, TVec(THueResponse(T))>>]

\* The match in the closure of Bridge::send: r is the outcome of decoding
\* the body as T, e the outcome of decoding it as Vec<HueResponse<T>>.
send_match(T, r, e) ==
        IF IsOk(r) THEN [result |-> r, decodes |-> <<T>>]
        ELSE [result |->
                 IF IsOk(e)
                 THEN IF Len(e[2][2]) = 0
                      THEN Err(FromMsg("Malformed response"))
                      ELSE into_result(e[2][2][1])
                 ELSE r,
              decodes |-> <<T, TVec(THueResponse(T))>>]

\* The closure Bridge::send runs on the response body, for target type T.
\* result is what the future resolves to, decodes the types serde_json was
\* asked to decode the body as, in order.
send_body(T, body) ==
    send_match(T, map_err_json(from_str(T, body)),
                  map_err_json(from_str(TVec(THueResponse(T)), body)))

\* send_and_extract, were send asked for a single T and its value wrapped
send_and_extract_first(T, body) ==
    LET s == send_body(T, body)
    IN  [sent |-> s.result,
         result |-> IF IsOk(s.result) THEN Ok(<<"Vec", <<s.result[2]>> >>)
                    ELSE s.result,
         decodes |-> s.decodes]

\* Bridge::send_and_extract: send::<Vec<HueResponse<T>>>, then extract
send_and_extract_body(T, body) ==
    LET s == send_body(TVec(THueResponse(T)), body)
    IN  [sent |-> s.result,
         result |-> IF IsOk(s.result) THEN extract(s.result[2][2]) ELSE s.result,
         decodes |-> s.decodes]

\* create_group / create_scene: send::<HueResponse<Id<T>>>, then
\* r.into_result().map(|g| g.id)
send_id_body(T, body) ==
    LET s == send_body(THueResponse(TId(T)), body)
        r == into_result(s.result[2])
    IN  [sent |-> s.result,
         result |-> IF IsOk(s.result)
                    THEN IF IsOk(r) THEN Ok(r[2][2]) ELSE r
                    ELSE s.result,
         decodes |-> s.decodes]

(***************************************************************************)
(* The facade: one row per method of Bridge                                *)
(*   http    the request method                                            *)
(*   path    the resource path appended to the base URL                    *)
(*   payload whether a request body is encoded with to_vec                 *)
(*   via     "send", "extract" (send_and_extract) or "id" (the create calls)*)
(*   ty      the type parameter the method instantiates                    *)
(***************************************************************************)
Row(h, p, pl, v, t) == [http |-> h, path |-> p, payload |-> pl, via |-> v, ty |-> t]

Facade ==
    [get_all_lights |->
        Row("Get", "lights", FALSE, "send", TBTreeMap(TUsize, TStruct("Light"))),
     get_light |->
        Row("Get", "lights/{id}", FALSE, "send", TStruct("Light")),
     get_new_lights |->
        Row("Get", "lights/new", FALSE, "send", TBTreeMap(TUsize, TStruct("Light"))),
     search_for_new_lights |->
        Row("Post", "lights", FALSE, "extract", TJsonMap),
     set_light_state |->
        Row("Put", "lights/{id}/state", TRUE, "extract", TJsonMap),
     rename_light |->
        Row("Put", "lights/{id}", TRUE, "extract", TJsonMap),
     delete_light |->
        Row("Delete", "lights/{id}", FALSE, "extract", TJsonMap),
     get_all_groups |->
        Row("Get", "groups", FALSE, "send", TBTreeMap(TUsize, TStruct("Group"))),
     create_group |->
        Row("Post", "groups", TRUE, "id", TUsize),
     get_group_attributes |->
        Row("Get", "groups/{id}", FALSE, "send", TStruct("Group")),
     set_group_attributes |->
        Row("Put", "groups/{id}", TRUE, "extract", TJsonMap),
     set_group_state |->
        Row("Put", "groups/{id}/action", TRUE, "extract", TJsonMap),
     delete_group |->
        Row("Delete", "groups/{id}", FALSE, "send", TVec(TString)),
     get_configuration |->
        Row("Get", "config", FALSE, "send", TStruct("Configuration")),
     modify_configuration |->
        Row("Put", "config", TRUE, "extract", TJsonMap),
     delete_user |->
        Row("Delete", "config/whitelist/{username}", FALSE, "extract", TString),
     get_full_state |->
        Row("Get", "", FALSE, "send", TStruct("FullState")),
     recall_scene_in_group |->
        Row("Put", "groups/{group_id}/action", TRUE, "extract", TJsonMap),
     get_all_scenes |->
        Row("Get", "scenes", FALSE, "send", TBTreeMap(TString, TStruct("Scene"))),
     create_scene |->
        Row("Post", "scenes", TRUE, "id", TString),
     modify_scene |->
        Row("Put", "scenes/{id}", TRUE, "extract", TJsonMap),
     set_light_state_in_scene |->
        Row("Put", "scenes/{scene_id}/lightstates/{light_id}", TRUE, "extract", TJsonMap),
     delete_scene |->
        Row("Delete", "scenes/{id}", FALSE, "extract", TString),
     get_scene_with_states |->
        Row("Get", "scenes/{id}", FALSE, "send", TStruct("Scene"))]

Methods == DOMAIN Facade

\* the type Bridge::send is instantiated with by method m
SendType(m) ==
    IF Facade[m].via = "extract" THEN TVec(THueResponse(Facade[m].ty))
    ELSE IF Facade[m].via = "id" THEN THueResponse(TId(Facade[m].ty))
    ELSE Facade[m].ty

\* what method m makes of a response body
Reconcile(m, body) ==
    IF Facade[m].via = "extract" THEN send_and_extract_body(Facade[m].ty, body)
    ELSE IF Facade[m].via = "id" THEN send_id_body(Facade[m].ty, body)
    ELSE LET s == send_body(Facade[m].ty, body)
         IN  [sent |-> s.result, result |-> s.result, decodes |-> s.decodes]

(***************************************************************************)
(* One facade call, from invocation to the resolution of its future        *)
(*   pc        "idle"      not invoked yet                                 *)
(*             "created"   future returned, payload encoded, not polled    *)
(*             "inflight"  request handed to the hyper client              *)
(*             "done"      future resolved                                 *)
(*             "panicked"  the calling thread aborted in an unwrap         *)
(*   encoded   the result of to_vec on the payload                         *)
(*   requests  the requests handed to the hyper client, in order           *)
(*   body      the response body, once it has arrived as text              *)
(*   decodes   the types the body was decoded as, in order                 *)
(*   sent      what the future of Bridge::send resolved to                 *)
(*   result    what the future of the facade method resolved to            *)
(***************************************************************************)
Unset == <<"unset">>

NewCall ==
    [pc |-> "idle", method |-> "none", encoded |-> Unset, requests |-> <<>>,
     body |-> Unset, decodes |-> <<>>, sent |-> Unset, result |-> Unset]

\* hyper::Request::new(method, uri), with the body set when there is one
Request(u, m, b) == [http |-> Facade[m].http, uri |-> <<u, Facade[m].path>>, body |-> b]

\* to_vec(payload): the bytes, or a serde_json::Error of the serializer
Encodings(m) == {Ok(<<"bytes", m>>), Err(<<"serde_json", "ser", m>>)}

\* Calling a facade method.  A method without payload calls self.send(req),
\* which hands the request to the client at once; a method with a payload
\* encodes it and returns futures::done(body).and_then(..), which has not
\* touched the client yet.
\* Every method first runs hyper::Uri::from_str(&format!("{}path", self.url))
\* .unwrap(), which aborts the thread when the text is refused (the path
\* follows the last '/' of the base URL and does not change how the text
\* before it is read).
InvokeStep(c, u, m, enc) ==
    IF IsErr(uri_from_str(u))
    THEN [c EXCEPT !.pc = "panicked", !.method = m]
    ELSE IF Facade[m].payload
    THEN [c EXCEPT !.pc = "created", !.method = m, !.encoded = enc]
    ELSE [c EXCEPT !.pc = "inflight", !.method = m,
                   !.requests = Append(@, Request(u, m, Unset))]

\* the first poll, were the request sent whether or not the payload encoded
PollStep_send_anyway(c, u) ==
    [c EXCEPT !.pc = "inflight",
              !.requests = Append(@, Request(u, c.method, c.encoded[2]))]

\* First poll of futures::done(body).and_then(move |body| ...): an Err body
\* resolves the future without running the closure; an Ok body is set on
\* the request and the request is sent.
PollStep(c, u) ==
    IF IsErr(c.encoded)
    THEN [c EXCEPT !.pc = "done", !.result = map_err_json(c.encoded)]
    ELSE [c EXCEPT !.pc = "inflight",
                   !.requests = Append(@, Request(u, c.method, c.encoded[2]))]

\* a transport failure, were the request sent once more before giving up
RequestFailsStep_retry(c) ==
    IF Len(c.requests) < 2
    THEN [c EXCEPT !.requests = Append(@, @[Len(@)])]
    ELSE [c EXCEPT !.pc = "done",
                   !.result = Err(FromHyperError(<<"hyper", "request">>))]

\* client.request(req) fails: from_err, every later and_then is skipped
RequestFailsStep(c) ==
    [c EXCEPT !.pc = "done", !.result = Err(FromHyperError(<<"hyper", "request">>))]

\* body_from_res: concat2 fails while the body is streamed
BodyFailsStep(c) ==
    [c EXCEPT !.pc = "done", !.result = Err(FromHyperError(<<"hyper", "body">>))]

\* body_from_res: the bytes are not UTF-8
BodyNotUtf8Step(c) ==
    [c EXCEPT !.pc = "done", !.result = Err(FromUtf8Error(<<"Utf8Error">>))]

\* body_from_res yields the text; the closure of send (and what the method
\* chains after it) runs on it
BodyArrivesStep(c, b) ==
    LET Resolved(s) ==
            [c EXCEPT !.pc = "done", !.body = b, !.decodes = s.decodes,
                      !.sent = s.sent, !.result = s.result]
    IN  Resolved(Reconcile(c.method, b))

\* register_user(ip, devicetype) up to core.run(future): the URL is parsed
\* with unwrap and the POST is handed to the client
RegisterStep(c, ip) ==
    IF IsErr(uri_from_str(RegisterUrl(ip)))
    THEN [c EXCEPT !.pc = "panicked", !.method = "register_user"]
    ELSE [c EXCEPT !.pc = "inflight", !.method = "register_user",
                   !.requests = Append(@, [http |-> "Post",
                                           uri |-> <<RegisterUrl(ip), "">>,
                                           body |-> <<"devicetype">>])]

\* register_user on the response body: decoded as Vec<HueResponse<User>>
\* only, then r.pop().unwrap().into_result().map(|u| u.username)
RegisterBodyStep(c, b) ==
    LET t == TVec(THueResponse(TUser))
        Username(last) ==
            IF IsOk(last) THEN Ok(<<"String", last[2][2]>>) ELSE last
        Popped(r) ==
            IF IsErr(r)
            THEN [c EXCEPT !.pc = "done", !.body = b, !.decodes = <<t>>,
                           !.sent = r, !.result = r]
            ELSE IF Len(r[2][2]) = 0
            THEN [c EXCEPT !.pc = "panicked", !.body = b, !.decodes = <<t>>]
            ELSE [c EXCEPT !.pc = "done", !.body = b, !.decodes = <<t>>,
                           !.sent = r,
                           !.result =
                               Username(into_result(r[2][2][Len(r[2][2])]))]
    IN  Popped(map_err_json(from_str(t, b)))

\* several calls on the same Bridge, none invoked yet
NoCalls == [i \in 1..NumCalls |-> NewCall]
\* the response text the bridge wrote on the connection of each call
NoWire == [i \in 1..NumCalls |-> Unset]

(***************************************************************************)
(* Spec: one Bridge, one facade call driven to completion                  *)
(***************************************************************************)
NoArgs == [ip |-> <<"a">>, username |-> <<"a">>]
NoGot == [ip |-> Unset, username |-> Unset]

Init ==
    /\ args = NoArgs
    /\ url = BridgeNew(args.ip, args.username)
    /\ got = NoGot
    /\ call = NewCall
    /\ responses = <<>>
    /\ extracted = Unset
    /\ calls = NoCalls
    /\ wire = NoWire
    /\ peak = 0

Invoke ==
    /\ call.pc = "idle"
    /\ \E m \in Methods : \E enc \in Encodings(m) :
           call' = InvokeStep(call, url, m, enc)
    /\ UNCHANGED <<url, args, got, responses, extracted, conc>>

Poll ==
    /\ call.pc = "created"
    /\ call' = PollStep(call, url)
    /\ UNCHANGED <<url, args, got, responses, extracted, conc>>

RequestFails ==
    /\ call.pc = "inflight"
    /\ call' = RequestFailsStep(call)
    /\ UNCHANGED <<url, args, got, responses, extracted, conc>>

BodyFails ==
    /\ call.pc = "inflight"
    /\ call' = BodyFailsStep(call)
    /\ UNCHANGED <<url, args, got, responses, extracted, conc>>

BodyNotUtf8 ==
    /\ call.pc = "inflight"
    /\ call' = BodyNotUtf8Step(call)
    /\ UNCHANGED <<url, args, got, responses, extracted, conc>>

BodyArrives ==
    /\ call.pc = "inflight"
    /\ \E b \in Bodies : call' = BodyArrivesStep(call, b)
    /\ UNCHANGED <<url, args, got, responses, extracted, conc>>

Next ==
    \/ Invoke
    \/ Poll
    \/ RequestFails
    \/ BodyFails
    \/ BodyNotUtf8
    \/ BodyArrives

Spec == Init /\ [][Next]_vars

(***************************************************************************)
(* SpecOps: any public operation, on any address                           *)
(***************************************************************************)
\* {"username": "u"}
JUser == Obj(<< <<"username", Str("u")>> >>)

OpsBodies ==
    {Bad, Arr(<<>>), JName, JSuccess(JId),
     Arr(<<JSuccess(JUser)>>), Arr(<<JSuccess(JName)>>),
     Arr(<<JError(JDetail1)>>), Arr(<<JError(JDetail1), JSuccess(JUser)>>)}

InitOps ==
    /\ args \in [ip : Strings, username : {<<"a">>}]
    /\ url = BridgeNew(args.ip, args.username)
    /\ got = NoGot
    /\ call = NewCall
    /\ responses = <<>>
    /\ extracted = Unset
    /\ calls = NoCalls
    /\ wire = NoWire
    /\ peak = 0

Register ==
    /\ call.pc = "idle"
    /\ call' = RegisterStep(call, args.ip)
    /\ UNCHANGED <<url, args, got, responses, extracted, conc>>

OpsBodyArrives ==
    /\ call.pc = "inflight"
    /\ \E b \in OpsBodies :
           call' = IF call.method = "register_user"
                   THEN RegisterBodyStep(call, b)
                   ELSE BodyArrivesStep(call, b)
    /\ UNCHANGED <<url, args, got, responses, extracted, conc>>

NextOps ==
    \/ Invoke
    \/ Register
    \/ Poll
    \/ RequestFails
    \/ BodyFails
    \/ BodyNotUtf8
    \/ OpsBodyArrives

SpecOps == InitOps /\ [][NextOps]_vars

(***************************************************************************)
(* SpecConc: several facade calls on one Bridge, their requests and        *)
(* responses interleaved in any order.  Bridge holds the client and the    *)
(* url only; each future owns its request and its response.                *)
(***************************************************************************)
ConcMethods == {"get_light", "set_light_state", "create_group"}

ConcBodies ==
    {Bad, Arr(<<>>), JName, JSuccess(JId),
     Arr(<<JSuccess(JName)>>), Arr(<<JError(JDetail1)>>)}

\* how many calls have a request in flight
InFlight(cs) == Cardinality({i \in 1..NumCalls : cs[i].pc = "inflight"})

\* the most calls that were in flight together so far
Peak(cs) == IF InFlight(cs) > peak THEN InFlight(cs) ELSE peak

\* the closure of call i, were it run on the response of another call's
\* connection (a buffer shared between the futures)
DeliverConc_shared(cs, w, i) ==
    LET others == {j \in 1..NumCalls : j # i /\ w[j] # Unset}
        k == IF others = {} THEN i ELSE CHOOSE j \in others : TRUE
    IN  [cs EXCEPT ![i] = BodyArrivesStep(cs[i], w[k])]

\* the response to call i has arrived: body_from_res of that call's future
\* yields the text of its own connection and its closure runs on it
DeliverConc(cs, w, i) == [cs EXCEPT ![i] = BodyArrivesStep(cs[i], w[i])]

ConcInvoke(i) ==
    /\ calls[i].pc = "idle"
    /\ \E m \in ConcMethods : \E enc \in Encodings(m) :
           calls' = [calls EXCEPT ![i] = InvokeStep(calls[i], url, m, enc)]
    /\ peak' = Peak(calls')
    /\ UNCHANGED <<url, args, got, call, responses, extracted, wire>>

ConcPoll(i) ==
    /\ calls[i].pc = "created"
    /\ calls' = [calls EXCEPT ![i] = PollStep(calls[i], url)]
    /\ peak' = Peak(calls')
    /\ UNCHANGED <<url, args, got, call, responses, extracted, wire>>

\* the bridge answers the request of call i
BridgeAnswers(i) ==
    /\ calls[i].pc = "inflight"
    /\ wire[i] = Unset
    /\ \E b \in ConcBodies : wire' = [wire EXCEPT ![i] = b]
    /\ UNCHANGED <<url, args, got, call, responses, extracted, calls, peak>>

ConcRequestFails(i) ==
    /\ calls[i].pc = "inflight"
    /\ wire[i] = Unset
    /\ calls' = [calls EXCEPT ![i] = RequestFailsStep(calls[i])]
    /\ UNCHANGED <<url, args, got, call, responses, extracted, wire, peak>>

ConcBodyFails(i) ==
    /\ calls[i].pc = "inflight"
    /\ wire[i] = Unset
    /\ calls' = [calls EXCEPT ![i] = BodyFailsStep(calls[i])]
    /\ UNCHANGED <<url, args, got, call, responses, extracted, wire, peak>>

ConcBodyNotUtf8(i) ==
    /\ calls[i].pc = "inflight"
    /\ wire[i] = Unset
    /\ calls' = [calls EXCEPT ![i] = BodyNotUtf8Step(calls[i])]
    /\ UNCHANGED <<url, args, got, call, responses, extracted, wire, peak>>

ConcBodyArrives(i) ==
    /\ calls[i].pc = "inflight"
    /\ wire[i] # Unset
    /\ calls' = DeliverConc(calls, wire, i)
    /\ UNCHANGED <<url, args, got, call, responses, extracted, wire, peak>>

NextConc ==
    \/ \E i \in 1..NumCalls : ConcInvoke(i)
    \/ \E i \in 1..NumCalls : ConcPoll(i)
    \/ \E i \in 1..NumCalls : BridgeAnswers(i)
    \/ \E i \in 1..NumCalls : ConcRequestFails(i)
    \/ \E i \in 1..NumCalls : ConcBodyFails(i)
    \/ \E i \in 1..NumCalls : ConcBodyNotUtf8(i)
    \/ \E i \in 1..NumCalls : ConcBodyArrives(i)

SpecConc == Init /\ [][NextConc]_vars

(***************************************************************************)
(* SpecUrl: Bridge::new on any address and credential, then the getters   *)
(***************************************************************************)
InitUrl ==
    /\ args \in [ip : Strings, username : Strings]
    /\ url = <<>>
    /\ got = NoGot
    /\ call = NewCall
    /\ responses = <<>>
    /\ extracted = Unset
    /\ calls = NoCalls
    /\ wire = NoWire
    /\ peak = 0

New ==
    /\ url = <<>>
    /\ url' = BridgeNew(args.ip, args.username)
    /\ UNCHANGED <<args, got, call, responses, extracted, conc>>

GetIp ==
    /\ url # <<>>
    /\ got.ip = Unset
    /\ got' = [got EXCEPT !.ip = get_ip(url)]
    /\ UNCHANGED <<url, args, call, responses, extracted, conc>>

GetUsername ==
    /\ url # <<>>
    /\ got.username = Unset
    /\ got' = [got EXCEPT !.username = get_username(url)]
    /\ UNCHANGED <<url, args, call, responses, extracted, conc>>

NextUrl ==
    \/ New
    \/ GetIp
    \/ GetUsername

SpecUrl == InitUrl /\ [][NextUrl]_vars

(***************************************************************************)
(* SpecExtract: extract on any sequence of outcomes                        *)
(***************************************************************************)
Detail1 == <<"Detail", 1, "/lights/9", "not available">>
Detail2 == <<"Detail", 3, "/groups/2", "not found">>

Outcomes ==
    {<<"Success", <<"String", "s">> >>, <<"Success", <<"String", "t">> >>,
     <<"Error", Detail1>>, <<"Error", Detail2>>}

InitExtract ==
    /\ args = NoArgs
    /\ url = BridgeNew(args.ip, args.username)
    /\ got = NoGot
    /\ call = NewCall
    /\ responses \in SeqsUpTo(Outcomes, MaxOutcomes)
    /\ extracted = Unset
    /\ calls = NoCalls
    /\ wire = NoWire
    /\ peak = 0

Extract ==
    /\ extracted = Unset
    /\ extracted' = extract(responses)
    /\ UNCHANGED <<url, args, got, call, responses, conc>>

NextExtract == Extract

SpecExtract == InitExtract /\ [][NextExtract]_vars

(***************************************************************************)
(* Properties                                                              *)
(***************************************************************************)
Done == call.pc = "done"
\* the call resolved on a response body that arrived as text
Answered == call.pc = "done" /\ call.body # Unset

\* the body of the call decoded as the type send was instantiated with
Direct == Decode(SendType(call.method), call.body)
\* the body of the call decoded as a sequence of outcomes of that type
Envelope == Decode(TVec(THueResponse(SendType(call.method))), call.body)
EnvelopeType == TVec(THueResponse(SendType(call.method)))

\* the error detail as it stands in the JSON element {"error": {...}}
JsonDetail(j) ==
    LET d == j[2][1][2]
    IN  <<"Detail", Field(d, "type")[2][2], Field(d, "address")[2][2],
          Field(d, "description")[2][2]>>

\* C1: whenever the response body decodes directly as the type send was
\* asked for, send resolves to Ok of that decoded value and the body is
\* decoded exactly once, as that type: the outcome envelope is not tried,
\* even for a body that would parse as an envelope too.
C1_DirectShapePriority ==
    (Answered /\ IsOk(Direct)) =>
        /\ call.sent = Ok(Direct[2])
        /\ call.decodes = <<SendType(call.method)>>

\* delete_group answered with []: the body is a Vec<String> and an (empty)
\* envelope at once, and the direct shape wins
C1_Witness ==
    /\ Answered
    /\ call.method = "delete_group"
    /\ call.body = Arr(<<>>)
    /\ IsOk(Direct) /\ IsOk(Envelope)
    /\ call.sent = Ok(<<"Vec", <<>> >>)

\* C2: when the body does not decode directly but parses as a non-empty
\* sequence of outcomes, send resolves by the first element alone:
\* Success(v) gives Ok(v), Failure(detail) gives Err(Bridge(detail)) with
\* the type code, address and description as the bridge wrote them.
C2_EnvelopeFallbackFirst ==
    (Answered /\ IsErr(Direct) /\ IsOk(Envelope) /\ Len(call.body[2]) > 0) =>
        LET first == Decode(THueResponse(SendType(call.method)), call.body[2][1])[2]
        IN  /\ first[1] = "Success" => call.sent = Ok(first[2])
            /\ first[1] = "Error" =>
                   call.sent = Err(<<"Bridge", JsonDetail(call.body[2][1])>>)

\* get_light answered with [{"error": detail1}, {"success": {"name": "s"}}]
C2_Witness ==
    /\ Answered
    /\ call.method = "get_light"
    /\ call.body = Arr(<<JError(JDetail1), JSuccess(JName)>>)
    /\ call.sent = Err(<<"Bridge", <<"Detail", 1, "/lights/9", "not available">> >>)

\* C3: when the body decodes neither directly nor as a sequence of
\* outcomes, both decodes were tried and the call resolves to the Decode
\* error of the first, direct attempt.
C3_OriginalDecodeError ==
    (Answered /\ IsErr(Direct) /\ IsErr(Envelope)) =>
        /\ call.decodes = <<SendType(call.method), EnvelopeType>>
        /\ call.sent = Err(<<"Decode", <<"serde_json", "de", SendType(call.method)>> >>)
        /\ call.result = call.sent

\* set_light_state answered with a text that is not JSON
C3_Witness ==
    /\ Answered
    /\ call.method = "set_light_state"
    /\ call.body = Bad
    /\ call.result[1] = "Err" /\ call.result[2][1] = "Decode"

\* C4 as stated: a write-style call answered with [] resolves to Err(Empty).
C4_EmptyBodyIsEmptyError ==
    (Answered /\ Facade[call.method].via = "extract" /\ call.body = Arr(<<>>)) =>
        call.result = Err(FromMsg("Malformed response"))

\* C4, amended: a write-style call (built on send_and_extract) answered
\* with [] resolves to Ok of the empty list: the body decodes directly as
\* an empty sequence of outcomes, the envelope fallback is not reached and
\* extract of the empty sequence succeeds.
C4_EmptyBodyIsEmptyList ==
    (Answered /\ Facade[call.method].via = "extract" /\ call.body = Arr(<<>>)) =>
        /\ call.result = Ok(<<"Vec", <<>> >>)
        /\ call.decodes = <<SendType(call.method)>>

\* modify_configuration answered with []
C4_Witness ==
    /\ Answered
    /\ call.method = "modify_configuration"
    /\ call.body = Arr(<<>>)
    /\ IsOk(call.result)

\* C7: a write-style call answered with a non-empty envelope of n Success
\* outcomes resolves to Ok of all n payloads, in the order of the body.
IsSuccessEnvelope(U, b) ==
    /\ b[1] = "arr"
    /\ Len(b[2]) >= 1
    /\ \A i \in 1..Len(b[2]) :
           /\ b[2][i][1] = "obj"
           /\ Len(b[2][i][2]) = 1
           /\ b[2][i][2][1][1] = "success"
           /\ IsOk(Decode(U, b[2][i][2][1][2]))

C7_WritePathKeepsAll ==
    (/\ Answered
     /\ Facade[call.method].via = "extract"
     /\ IsSuccessEnvelope(Facade[call.method].ty, call.body)) =>
        call.result =
            Ok(<<"Vec", [i \in 1..Len(call.body[2]) |->
                           Decode(Facade[call.method].ty, call.body[2][i][2][1][2])[2]]>>)

\* set_light_state answered with [{"success": {"name": "s"}}, {"success": {"id": 7}}]
C7_Witness ==
    /\ Answered
    /\ call.method = "set_light_state"
    /\ call.body = Arr(<<JSuccess(JName), JSuccess(JId)>>)
    /\ call.result = Ok(<<"Vec", << <<"Map", JName[2]>>, <<"Map", JId[2]>> >> >>)

C9_OneRequestNoRetry ==
    /\ Len(call.requests) <= 1
    /\ (Done /\ ~IsErr(call.encoded)) => Len(call.requests) = 1
    /\ (Done /\ IsErr(call.result) /\ call.result[2][1] = "Transport") =>
           (call.decodes = <<>> /\ call.body = Unset)
    /\ (Done /\ call.body = Unset /\ ~IsErr(call.encoded)) =>
           (IsErr(call.result) /\ call.result[2][1] \in {"Transport", "Encoding"})

\* get_full_state whose request failed in the transport
C9_Witness ==
    /\ Done
    /\ call.method = "get_full_state"
    /\ call.result = Err(<<"Transport", <<"hyper", "request">> >>)
    /\ Len(call.requests) = 1

\* C5: if the sequence holds a Failure, extract returns Err(Bridge(detail))
\* of the Failure with the smallest index, whatever stands before or after
\* it, and no list.
C5_FailFastFirstError ==
    (extracted # Unset /\ \E i \in 1..Len(responses) : responses[i][1] = "Error") =>
        LET i == CHOOSE k \in 1..Len(responses) :
                     /\ responses[k][1] = "Error"
                     /\ \A j \in 1..(k - 1) : responses[j][1] # "Error"
        IN  extracted = Err(<<"Bridge", responses[i][2]>>)

\* a success, then two different failures
C5_Witness ==
    /\ responses = << <<"Success", <<"String", "s">> >>, <<"Error", Detail2>>,
                      <<"Error", Detail1>> >>
    /\ extracted = Err(<<"Bridge", Detail2>>)

\* C6: if the sequence holds no Failure, extract returns Ok of a list as
\* long as the input whose k-th element is the payload of the k-th Success;
\* the empty sequence gives Ok of the empty list.
C6_AllSuccessInOrder ==
    (extracted # Unset /\ \A i \in 1..Len(responses) : responses[i][1] = "Success") =>
        extracted = Ok(<<"Vec", [k \in 1..Len(responses) |-> responses[k][2]]>>)

\* two different successes
C6_Witness ==
    /\ responses = << <<"Success", <<"String", "s">> >>, <<"Success", <<"String", "t">> >> >>
    /\ extracted = Ok(<<"Vec", << <<"String", "s">>, <<"String", "t">> >> >>)

\* C10 as stated: the base URL is http://{ip}/api/{username}/ and the
\* getters give back exactly the address and the credential the Bridge was
\* built with, whatever characters they hold.
C10_EndpointRoundTrip ==
    /\ url # <<>> =>
           url = <<"h", "t", "t", "p", ":", "/", "/">> \o args.ip
                    \o <<"/", "a", "p", "i", "/">> \o args.username \o <<"/">>
    /\ got.ip # Unset => got.ip = <<"str", args.ip>>
    /\ got.username # Unset => got.username = <<"str", args.username>>

\* C11 as stated: no public operation aborts; every failure comes back as
\* a typed HueError, and a call on a malformed address that has been driven
\* to its end has resolved to a Transport error.
C11_NoAborts ==
    /\ call.pc # "panicked"
    /\ Done => (IsOk(call.result) \/ IsErr(call.result))
    /\ (Done /\ IsErr(uri_from_str(url))) =>
           (IsErr(call.result) /\ call.result[2][1] = "Transport")

\* C12 as stated: create_group and create_scene answered with the write
\* envelope [{"success": {"id": X}}] resolve to Ok(X), and answered with
\* [{"error": detail}] resolve to Err(Bridge(detail)).
C12_CreateReturnsId ==
    /\ (Answered /\ call.method = "create_group"
                 /\ call.body = Arr(<<JSuccess(JId)>>)) =>
           call.result = Ok(<<"usize", 7>>)
    /\ (Answered /\ call.method = "create_scene"
                 /\ call.body = Arr(<<JSuccess(JIdStr)>>)) =>
           call.result = Ok(<<"String", "s">>)
    /\ (Answered /\ call.method \in {"create_group", "create_scene"}
                 /\ call.body = Arr(<<JError(JDetail1)>>)) =>
           call.result = Err(<<"Bridge", Detail1>>)

\* C14 as stated: delete_group reconciles every response body as
\* delete_scene and delete_user do; [{"success": s}] resolves to Ok([s])
\* and [{"error": detail}] to Err(Bridge(detail)) for all three.
\* Two results are compared by their value, or by the kind of their error
\* (and the detail of a Bridge error): the text of a decode error is not
\* part of the comparison.
Outcome(r) ==
    IF IsOk(r) \/ r[2][1] = "Bridge" THEN r ELSE Err(<<r[2][1]>>)

C14_DeletesReconcileAlike ==
    /\ (Answered /\ call.method = "delete_group") =>
           /\ Outcome(call.result) = Outcome(Reconcile("delete_scene", call.body).result)
           /\ Outcome(call.result) = Outcome(Reconcile("delete_user", call.body).result)
    /\ (Answered /\ call.method \in {"delete_group", "delete_scene", "delete_user"}
                 /\ call.body = Arr(<<JSuccess(Str("s"))>>)) =>
           call.result = Ok(<<"Vec", << <<"String", "s">> >> >>)
    /\ (Answered /\ call.method \in {"delete_group", "delete_scene", "delete_user"}
                 /\ call.body = Arr(<<JError(JDetail1)>>)) =>
           call.result = Err(<<"Bridge", Detail1>>)

\* what a call resolves to, from its own method, encoded payload, the way
\* its own request ended and its own response body
OwnResult(c, w) ==
    IF w # Unset THEN Reconcile(c.method, w).result
    ELSE IF IsErr(c.encoded) THEN map_err_json(c.encoded)
    ELSE c.result

\* every call has sent at most its own one request, built from the Bridge's
\* url and its own method and payload, and a resolved call holds the result
\* of its own request and response
ConcIndependent ==
    /\ url = BridgeNew(args.ip, args.username)
    /\ \A i \in 1..NumCalls :
           /\ Len(calls[i].requests) <= 1
           /\ Len(calls[i].requests) = 1 =>
                  calls[i].requests[1] =
                      Request(url, calls[i].method,
                              IF Facade[calls[i].method].payload
                              THEN calls[i].encoded[2] ELSE Unset)
           /\ calls[i].pc = "done" =>
                  /\ IsOk(calls[i].result) \/ IsErr(calls[i].result)
                  /\ calls[i].body = wire[i]
                  /\ calls[i].result = OwnResult(calls[i], wire[i])
                  /\ (wire[i] = Unset /\ ~IsErr(calls[i].encoded)) =>
                         calls[i].result[2][1] \in {"Transport", "Encoding"}

\* a step acts on one call and leaves every other call, every resolved call
\* and the Bridge's url as they were
ConcStepLocal ==
    /\ url' = url
    /\ \E i \in 1..NumCalls : \A j \in 1..NumCalls : j # i => calls'[j] = calls[j]
    /\ \A i \in 1..NumCalls : calls[i].pc = "done" => calls'[i] = calls[i]

\* C13: with several calls in flight on one Bridge and their requests and
\* responses interleaved in any order, each call resolves once, to a result
\* that depends on its own request and response only; no step of one call
\* changes another call, a resolved call or the Bridge's base URL.
C13_ConcurrentCallsIndependent == []ConcIndependent /\ [][ConcStepLocal]_vars

\* two calls were in flight together and were answered differently: the
\* first resolved to its own light, the second to its own bridge error
C13_Witness ==
    /\ peak = 2
    /\ wire[1] = JName /\ wire[2] = Arr(<<JError(JDetail1)>>)
    /\ calls[1].pc = "done" /\ calls[1].method = "get_light"
    /\ calls[1].body = JName
    /\ calls[1].result = Ok(<<"Struct", "Light", "s">>)
    /\ calls[2].pc = "done" /\ calls[2].method = "set_light_state"
    /\ calls[2].body = Arr(<<JError(JDetail1)>>)
    /\ calls[2].result = Err(<<"Bridge", Detail1>>)

====
